---- MODULE Spec2Model ----
(***************************************************************************)
(* The entity-component framework of demo.cpp (namespace SpaceInvaders):   *)
(* the component-type registry, Entity and EntityManager, driven by a      *)
(* client that calls their public operations in any order.                 *)
(***************************************************************************)
EXTENDS Integers, Sequences, FiniteSets, TLC

\* Program constants.
maxComponents == 32
maxGroups == 32

\* Bounds of the model.
MaxEntities == 2      \* AddEntity calls of the clients Spec and PassSpec
MaxEntries == 2       \* entries the group lists may hold in total
MaxHolders == 1       \* AddEntity calls of the client ComponentSpec
NumVariants == 2      \* component variants the clients instantiate
MaxAttached == 2      \* components the entities may hold in total
MaxFt == 4            \* the longest frame, in ticks of 1/FtScale ms
countEnemyRow == 1    \* enemy ships of a column (4 in the source)
maxPlayerBullets == 1 \* player bullets of the pool (6 in the source)
maxEnemyBullets == 1  \* enemy bullets of the pool (36 in the source)
MaxOrdered == 3       \* AddEntity calls of the client OrderSpec
MaxInitialized == 3   \* components the entities of the client InitSpec may hold

VARIABLES
    lastID,           \* Internal::GetUniqueComponentID's static lastID
    typeID,           \* GetComponentTypeID<T>'s static typeID, per variant T called
    entities,         \* EntityManager::entities
    groupedEntities,  \* EntityManager::groupedEntities
    nextEntity,       \* identity of the next Entity object allocated
    alive,            \* Entity::alive, per owned entity
    active,           \* Entity::active
    components,       \* Entity::components
    componentArray,   \* Entity::componentArray (the slots written so far)
    componentBitset,  \* Entity::componentBitset (the bits that are set)
    groupBitset,      \* Entity::groupBitset (the bits that are set)
    trapped,          \* the failed assertion that aborted the program, or NoTrap
    pc,               \* the Game object's position in its constructor and in Run()
    running,          \* Game::running
    lastFt,           \* Game::lastFt
    currentSlice,     \* Game::currentSlice
    lastCall,         \* the manager operation Run() called last, or NoCall
    currentBullet     \* PlayerController::currentPlayerBullet and
                      \* WeaponAIController::currentEnemyBullet, per entity that
                      \* holds such a component

vars == <<lastID, typeID, entities, groupedEntities, nextEntity, alive, active,
          components, componentArray, componentBitset, groupBitset, trapped,
          pc, running, lastFt, currentSlice, lastCall, currentBullet>>

registry == <<lastID, typeID>>
flags == <<alive, active>>
compState == <<components, componentArray, componentBitset>>
manager == <<entities, groupedEntities, nextEntity>>
game == <<pc, running, lastFt, currentSlice, lastCall, currentBullet>>
world == <<registry, manager, flags, compState, groupBitset, trapped>>

Variants == 0 .. NumVariants - 1
\* The clients tag with the first and the last group.
Groups == {0, maxGroups - 1}
AllGroups == 0 .. maxGroups - 1
NoTrap == "none"
NoCall == "none"

Range(s) == {s[i] : i \in DOMAIN s}
Owned == Range(entities)
Extend(f, k, v) == [x \in DOMAIN f \cup {k} |-> IF x = k THEN v ELSE f[x]]
Restrict(f, S) == [x \in S |-> f[x]]

----------------------------------------------------------------------------
\* Component-type registry.

\* return lastID; without the increment.
GetSameComponentID == [ret |-> lastID, lastID |-> lastID]

\* The value returned and the static's value afterwards.
GetUniqueComponentID == [ret |-> lastID, lastID |-> lastID + 1]

\* T's static typeID exists once the first call for T has initialised it.
Registered(T) == T \in DOMAIN typeID

\* The value returned and both statics afterwards: typeID is initialised by
\* the first call for T and only read by the later ones.
GetComponentTypeID(T) ==
    IF ~Registered(T)
    THEN [ret |-> GetUniqueComponentID.ret,
          typeID |-> Extend(typeID, T, GetUniqueComponentID.ret),
          lastID |-> GetUniqueComponentID.lastID]
    ELSE [ret |-> typeID[T], typeID |-> typeID, lastID |-> lastID]

CallGetComponentTypeID(T) ==
    /\ trapped = NoTrap
    /\ typeID' = GetComponentTypeID(T).typeID
    /\ lastID' = GetComponentTypeID(T).lastID
    /\ UNCHANGED <<manager, flags, compState, groupBitset, trapped>>

----------------------------------------------------------------------------
\* Entity.

IsAlive(e) == alive[e]
IsActive(e) == active[e]
HasGroup(e, g) == g \in groupBitset[e]

\* componentBitset[GetComponentTypeID<T>()]
HasComponent(e, T) == GetComponentTypeID(T).ret \in componentBitset[e]

\* Destroy() as it would be if it erased the entity from the collection at once.
DestroyErases(e) ==
    /\ trapped = NoTrap
    /\ e \in Owned
    /\ entities' = SelectSeq(entities, LAMBDA x : x # e)
    /\ alive' = Restrict(alive, Owned \ {e})
    /\ active' = Restrict(active, Owned \ {e})
    /\ components' = Restrict(components, Owned \ {e})
    /\ componentArray' = Restrict(componentArray, Owned \ {e})
    /\ componentBitset' = Restrict(componentBitset, Owned \ {e})
    /\ groupBitset' = Restrict(groupBitset, Owned \ {e})
    /\ UNCHANGED <<registry, groupedEntities, nextEntity, trapped>>

Destroy(e) ==
    /\ trapped = NoTrap
    /\ e \in Owned
    /\ alive' = [alive EXCEPT ![e] = FALSE]
    /\ UNCHANGED <<registry, manager, active, compState, groupBitset, trapped>>

\* Enable() as it would be if it also raised the alive flag.
EnableRevives(e) ==
    /\ trapped = NoTrap
    /\ e \in Owned
    /\ active' = [active EXCEPT ![e] = TRUE]
    /\ alive' = [alive EXCEPT ![e] = TRUE]
    /\ UNCHANGED <<registry, manager, compState, groupBitset, trapped>>

Enable(e) ==
    /\ trapped = NoTrap
    /\ e \in Owned
    /\ active' = [active EXCEPT ![e] = TRUE]
    /\ UNCHANGED <<registry, manager, alive, compState, groupBitset, trapped>>

Disable(e) ==
    /\ trapped = NoTrap
    /\ e \in Owned
    /\ active' = [active EXCEPT ![e] = FALSE]
    /\ UNCHANGED <<registry, manager, alive, compState, groupBitset, trapped>>

CallHasComponent(e, T) ==
    /\ trapped = NoTrap
    /\ e \in Owned
    /\ typeID' = GetComponentTypeID(T).typeID
    /\ lastID' = GetComponentTypeID(T).lastID
    /\ UNCHANGED <<manager, flags, compState, groupBitset, trapped>>

\* AddToGroup() as it would be if it skipped an entity the list already holds.
AddToGroupOnce(e, g) ==
    IF e \in Range(groupedEntities[g]) THEN groupedEntities
    ELSE [groupedEntities EXCEPT ![g] = Append(@, e)]

\* groupedEntities[group].emplace_back(entity)
AddToGroup(e, g) == [groupedEntities EXCEPT ![g] = Append(@, e)]

\* std::bitset::operator[] and std::array::operator[] do not check their
\* index. An index past the end is undefined behaviour: the access faults
\* (Fault: a checked library build aborts there, or the address is not
\* mapped), or it goes through and reads or writes what lies behind the
\* object.
Fault == "fault"

\* AddGroup with group >= maxGroups: the bit lands behind the bitset's
\* maxGroups bits and the emplace_back on memory behind the array of lists,
\* which is no list of the manager.
AddGroupPastEnd(e, g) ==
    \/ /\ trapped' = Fault
       /\ UNCHANGED <<groupBitset, groupedEntities>>
    \/ /\ groupBitset' = [groupBitset EXCEPT ![e] = @ \cup {g}]
       /\ UNCHANGED <<groupedEntities, trapped>>

\* AddGroup() as it would be if it did not notify the manager.
AddGroupBitOnly(e, g) ==
    /\ trapped = NoTrap
    /\ e \in Owned
    /\ groupBitset' = [groupBitset EXCEPT ![e] = @ \cup {g}]
    /\ UNCHANGED <<registry, manager, flags, compState, trapped>>

AddGroup(e, g) ==
    /\ trapped = NoTrap
    /\ e \in Owned
    /\ IF g < maxGroups
       THEN /\ groupBitset' = [groupBitset EXCEPT ![e] = @ \cup {g}]
            /\ groupedEntities' = AddToGroup(e, g)
            /\ UNCHANGED trapped
       ELSE AddGroupPastEnd(e, g)
    /\ UNCHANGED <<registry, entities, nextEntity, flags, compState>>

\* DelGroup() as it would be if it also erased the entity from the group's list.
DelGroupErases(e, g) ==
    /\ trapped = NoTrap
    /\ e \in Owned
    /\ groupBitset' = [groupBitset EXCEPT ![e] = @ \ {g}]
    /\ groupedEntities' = [groupedEntities EXCEPT ![g] = SelectSeq(@, LAMBDA x : x # e)]
    /\ UNCHANGED <<registry, entities, nextEntity, flags, compState, trapped>>

\* DelGroup with group >= maxGroups.
DelGroupPastEnd(e, g) ==
    \/ /\ trapped' = Fault
       /\ UNCHANGED groupBitset
    \/ /\ groupBitset' = [groupBitset EXCEPT ![e] = @ \ {g}]
       /\ UNCHANGED trapped

DelGroup(e, g) ==
    /\ trapped = NoTrap
    /\ e \in Owned
    /\ IF g < maxGroups
       THEN /\ groupBitset' = [groupBitset EXCEPT ![e] = @ \ {g}]
            /\ UNCHANGED trapped
       ELSE DelGroupPastEnd(e, g)
    /\ UNCHANGED <<registry, manager, flags, compState>>

\* A call of HasGroup(group) or GetEntitiesByGroup(group): group >= maxGroups
\* reads behind the bitset or the array, and the call faults or returns what
\* it found there.
CallHasGroup(e, g) ==
    /\ trapped = NoTrap
    /\ e \in Owned
    /\ IF g < maxGroups THEN UNCHANGED trapped
       ELSE trapped' = Fault \/ UNCHANGED trapped
    /\ UNCHANGED <<registry, manager, flags, compState, groupBitset>>

CallGetEntitiesByGroup(g) ==
    /\ trapped = NoTrap
    /\ IF g < maxGroups THEN UNCHANGED trapped
       ELSE trapped' = Fault \/ UNCHANGED trapped
    /\ UNCHANGED <<registry, manager, flags, compState, groupBitset>>

\* new T(...) with c->entity = this: the object is identified by its owner
\* and its rank among the owner's allocations.
NewComponent(e, T) == [T |-> T, entity |-> e, n |-> Len(components[e]) + 1]

\* The slot is indexed by the component's rank in the entity instead of by
\* its type ID.
AttachInOrder(e, T) ==
    LET c == NewComponent(e, T)
    IN  /\ components' = [components EXCEPT ![e] = Append(@, c)]
        /\ componentArray' = [componentArray EXCEPT ![e] = Extend(@, Len(components[e]), c)]
        /\ componentBitset' = [componentBitset EXCEPT ![e] = @ \cup {GetComponentTypeID(T).ret}]

\* The statements of AddComponent after its assertion as they would be if
\* the presence bits were one bitset shared by all entities.
AttachShared(e, T) ==
    LET c == NewComponent(e, T)
        id == GetComponentTypeID(T).ret
    IN  /\ components' = [components EXCEPT ![e] = Append(@, c)]
        /\ componentArray' = [componentArray EXCEPT ![e] = Extend(@, id, c)]
        /\ componentBitset' = [d \in DOMAIN componentBitset |-> componentBitset[d] \cup {id}]

\* The statements of AddComponent between its assertion and c->Initialize().
Attach(e, T) ==
    LET c == NewComponent(e, T)
        id == GetComponentTypeID(T).ret
    IN  /\ components' = [components EXCEPT ![e] = Append(@, c)]
        /\ componentArray' = [componentArray EXCEPT ![e] = Extend(@, id, c)]
        /\ componentBitset' = [componentBitset EXCEPT ![e] = @ \cup {id}]

\* AddComponent without its assertion.
AddComponentUnchecked(e, T) ==
    /\ trapped = NoTrap
    /\ e \in Owned
    /\ typeID' = GetComponentTypeID(T).typeID
    /\ lastID' = GetComponentTypeID(T).lastID
    /\ Attach(e, T)
    /\ UNCHANGED <<manager, flags, groupBitset, trapped>>

\* AddComponent<T> when T's ID is >= maxComponents. The assertion reads
\* behind componentBitset: it faults, or finds a bit set and fails, or passes.
\* Then the component is appended, and the slot write behind componentArray
\* faults or lands on what follows the array in the Entity, its two bitsets;
\* bits is what the pointer's bytes leave in them.
BitsLeft == SUBSET {0, maxGroups - 1}
AddComponentPastEnd(e, T) ==
    LET c == NewComponent(e, T)
        id == GetComponentTypeID(T).ret
    IN  \/ /\ trapped' \in {Fault, "AddComponent"}
           /\ UNCHANGED <<compState, groupBitset>>
        \/ /\ trapped' = Fault
           /\ components' = [components EXCEPT ![e] = Append(@, c)]
           /\ UNCHANGED <<componentArray, componentBitset, groupBitset>>
        \/ \E bits \in BitsLeft :
              /\ components' = [components EXCEPT ![e] = Append(@, c)]
              /\ componentBitset' = [componentBitset EXCEPT ![e] = bits \cup {id}]
              /\ groupBitset' = [groupBitset EXCEPT ![e] = bits]
              /\ UNCHANGED <<componentArray, trapped>>

\* GetComponentTypeID<T>() on the statics reg, the result of an earlier call.
GetComponentTypeIDIn(reg, T) ==
    IF T \notin DOMAIN reg.typeID
    THEN [ret |-> reg.lastID, typeID |-> Extend(reg.typeID, T, reg.lastID),
          lastID |-> reg.lastID + 1]
    ELSE [ret |-> reg.typeID[T], typeID |-> reg.typeID, lastID |-> reg.lastID]

\* Initialize() called before the slot and the bit are written.
BeforeAttach(e, T) ==
    [bits |-> componentBitset[e], slots |-> componentArray[e],
     components |-> Append(components[e], NewComponent(e, T))]

\* The entity as c->Initialize() finds it: the component is in the list and
\* its slot and its bit are written.
AtInitialize(e, T) ==
    [bits |-> componentBitset[e] \cup {GetComponentTypeID(T).ret},
     slots |-> Extend(componentArray[e], GetComponentTypeID(T).ret, NewComponent(e, T)),
     components |-> Append(components[e], NewComponent(e, T))]

\* c->Initialize() from its k-th lookup on: lookups are the sibling types it
\* fetches with entity->GetComponent<U>(), in order, bits the entity's
\* presence bits and reg the statics. A lookup of a type the entity lacks
\* stops at GetComponent's assertion. The result is the statics afterwards
\* and the assertion that failed, if one did.
RECURSIVE Initialize(_, _, _, _)
Initialize(lookups, k, reg, bits) ==
    IF k > Len(lookups)
    THEN [typeID |-> reg.typeID, lastID |-> reg.lastID, trapped |-> NoTrap]
    ELSE LET r == GetComponentTypeIDIn(reg, lookups[k])
         IN  IF r.ret \in bits THEN Initialize(lookups, k + 1, r, bits)
             ELSE [typeID |-> r.typeID, lastID |-> r.lastID, trapped |-> "GetComponent"]

\* AddComponent<T> for a component type whose Initialize() fetches lookups.
AddComponentOf(e, T, lookups) ==
    /\ trapped = NoTrap
    /\ e \in Owned
    /\ IF GetComponentTypeID(T).ret >= maxComponents
       THEN /\ typeID' = GetComponentTypeID(T).typeID
            /\ lastID' = GetComponentTypeID(T).lastID
            /\ AddComponentPastEnd(e, T)
       ELSE IF HasComponent(e, T)
       THEN /\ typeID' = GetComponentTypeID(T).typeID
            /\ lastID' = GetComponentTypeID(T).lastID
            /\ trapped' = "AddComponent"
            /\ UNCHANGED <<compState, groupBitset>>
       ELSE LET init == Initialize(lookups, 1, GetComponentTypeID(T), AtInitialize(e, T).bits)
            IN  /\ Attach(e, T)
                /\ typeID' = init.typeID
                /\ lastID' = init.lastID
                /\ trapped' = init.trapped
                /\ UNCHANGED groupBitset
    /\ UNCHANGED <<manager, flags>>

\* AddComponent<T> for a component type that keeps Component's Initialize(),
\* which does nothing.
AddComponent(e, T) == AddComponentOf(e, T, <<>>)

\* An array slot never written holds an indeterminate pointer.
Garbage == [garbage |-> TRUE]
Slot(e, id) == IF id \in DOMAIN componentArray[e] THEN componentArray[e][id] ELSE Garbage

\* What GetComponent<T>() returns when its assertion holds.
GetComponentResult(e, T) == Slot(e, GetComponentTypeID(T).ret)

\* GetComponent without its assertion.
GetComponentUnchecked(e, T) ==
    /\ trapped = NoTrap
    /\ e \in Owned
    /\ typeID' = GetComponentTypeID(T).typeID
    /\ lastID' = GetComponentTypeID(T).lastID
    /\ UNCHANGED <<manager, flags, compState, groupBitset, trapped>>

GetComponent(e, T) ==
    /\ trapped = NoTrap
    /\ e \in Owned
    /\ typeID' = GetComponentTypeID(T).typeID
    /\ lastID' = GetComponentTypeID(T).lastID
    /\ IF HasComponent(e, T)
       THEN UNCHANGED trapped
       ELSE /\ trapped' = "GetComponent"
    /\ UNCHANGED <<manager, flags, compState, groupBitset>>

\* Entity::Update and Entity::Draw as they would be if they went through
\* the components from the last to the first.
EntityHooksReversed(e) ==
    [k \in 1 .. Len(components[e]) |-> components[e][Len(components[e]) + 1 - k]]

\* Entity::Update and Entity::Draw: one hook call per component, in order.
EntityHooks(e) == [k \in 1 .. Len(components[e]) |-> components[e][k]]

----------------------------------------------------------------------------
\* EntityManager.

GetEntitiesByGroup(g) == groupedEntities[g]

AddEntity ==
    /\ trapped = NoTrap
    /\ entities' = Append(entities, nextEntity)
    /\ nextEntity' = nextEntity + 1
    /\ alive' = Extend(alive, nextEntity, TRUE)
    /\ active' = Extend(active, nextEntity, TRUE)
    /\ components' = Extend(components, nextEntity, <<>>)
    /\ componentArray' = Extend(componentArray, nextEntity, <<>>)
    /\ componentBitset' = Extend(componentBitset, nextEntity, {})
    /\ groupBitset' = Extend(groupBitset, nextEntity, {})
    /\ UNCHANGED <<registry, groupedEntities, trapped>>

\* A component's Update may enable another entity while the pass runs, as
\* PlayerController::Update does through UsePlayerShipWeapon. fx names the
\* entity whose component does so and the entity it enables; NoFx: none does.
NoFx == <<>>
HookEnable(e, act, fx) ==
    IF fx # NoFx /\ fx[1] = e /\ components[e] # <<>> THEN [act EXCEPT ![fx[2]] = TRUE] ELSE act

\* The pass tests the alive flag instead of the active flag.
VisitsAlive(act, e) == IsAlive(e)

\* The pass tests the alive flag as well as the active flag.
VisitsLiving(act, e) == act[e] /\ IsAlive(e)

\* if (e->IsActive()), on the flags as they are when e is reached.
Visits(act, e) == act[e]

\* The loop of EntityManager::Update from position i on: act is the active
\* flags and log the hook calls made so far.
RECURSIVE UpdateFrom(_, _, _, _)
UpdateFrom(i, act, log, fx) ==
    IF i > Len(entities) THEN [active |-> act, log |-> log]
    ELSE IF Visits(act, entities[i])
         THEN UpdateFrom(i + 1, HookEnable(entities[i], act, fx),
                         log \o EntityHooks(entities[i]), fx)
         ELSE UpdateFrom(i + 1, act, log, fx)

Update(fx) ==
    /\ trapped = NoTrap
    /\ active' = UpdateFrom(1, active, <<>>, fx).active
    /\ UNCHANGED <<registry, manager, alive, compState, groupBitset, trapped>>

\* The loop of EntityManager::Draw from position i on.
RECURSIVE DrawFrom(_, _)
DrawFrom(i, log) ==
    IF i > Len(entities) THEN log
    ELSE IF Visits(active, entities[i])
         THEN DrawFrom(i + 1, log \o EntityHooks(entities[i]))
         ELSE DrawFrom(i + 1, log)

Draw ==
    /\ trapped = NoTrap
    /\ UNCHANGED <<registry, manager, flags, compState, groupBitset, trapped>>

\* Variants of the predicates: the group test forgets the membership bit; the
\* collection test also drops disabled entities, or spares them.
StaleIfDead(e, i) == ~IsAlive(e)
DeadOrInactive(e) == ~IsAlive(e) \/ ~IsActive(e)
DeadAndActive(e) == ~IsAlive(e) /\ IsActive(e)

\* Refresh's group predicate as it would be if it did not look at the alive
\* flag, and as it would be with && for ||.
StaleIfNotMember(e, i) == ~HasGroup(e, i)
StaleIfBoth(e, i) == ~IsAlive(e) /\ ~HasGroup(e, i)

\* The predicates of Refresh's two remove_if calls.
StaleInGroup(e, i) == ~IsAlive(e) \/ ~HasGroup(e, i)
Dead(e) == ~IsAlive(e)

\* The group loop starts at 1 and never cleans group 0.
RefreshGroupsFromOne ==
    [i \in AllGroups |->
        IF i = 0 THEN groupedEntities[i]
        ELSE SelectSeq(groupedEntities[i], LAMBDA e : ~StaleInGroup(e, i))]

\* The group lists after the loop over the maxGroups groups: erase with
\* remove_if keeps the entries the predicate rejects, in their order.
RefreshGroups ==
    [i \in AllGroups |-> SelectSeq(groupedEntities[i], LAMBDA e : ~StaleInGroup(e, i))]

\* erase(remove_if(...)) without the end iterator erases one element only.
RefreshEntitiesEraseOne ==
    LET dead == {i \in DOMAIN entities : Dead(entities[i])}
        k == CHOOSE i \in dead : \A j \in dead : i <= j
    IN  IF dead = {} THEN entities
        ELSE SubSeq(entities, 1, k - 1) \o SubSeq(entities, k + 1, Len(entities))

\* The erase of the canonical collection as it would be if it filled the
\* place of a dead entity with the last entity of the collection.
RECURSIVE SwapRemove(_)
SwapRemove(s) ==
    LET dead == {i \in 1 .. Len(s) : ~IsAlive(s[i])}
        k == CHOOSE i \in dead : \A j \in dead : i <= j
    IN  IF dead = {} THEN s
        ELSE SwapRemove(SubSeq([s EXCEPT ![k] = s[Len(s)]], 1, Len(s) - 1))
RefreshEntitiesSwapRemove == SwapRemove(entities)

\* The canonical collection after its erase.
RefreshEntities == SelectSeq(entities, LAMBDA e : ~Dead(e))

Refresh ==
    /\ trapped = NoTrap
    /\ groupedEntities' = RefreshGroups
    /\ entities' = RefreshEntities
    /\ alive' = Restrict(alive, Range(RefreshEntities))
    /\ active' = Restrict(active, Range(RefreshEntities))
    /\ components' = Restrict(components, Range(RefreshEntities))
    /\ componentArray' = Restrict(componentArray, Range(RefreshEntities))
    /\ componentBitset' = Restrict(componentBitset, Range(RefreshEntities))
    /\ groupBitset' = Restrict(groupBitset, Range(RefreshEntities))
    /\ UNCHANGED <<registry, nextEntity, trapped>>

----------------------------------------------------------------------------

\* The position of a Game object that is about to be constructed.
Start == [at |-> "Game", n |-> 1]

Init ==
    /\ lastID = 0
    /\ typeID = <<>>
    /\ entities = <<>>
    /\ groupedEntities = [i \in AllGroups |-> <<>>]
    /\ nextEntity = 1
    /\ alive = <<>>
    /\ active = <<>>
    /\ components = <<>>
    /\ componentArray = <<>>
    /\ componentBitset = <<>>
    /\ groupBitset = <<>>
    /\ trapped = NoTrap
    /\ pc = Start
    /\ running = FALSE
    /\ lastFt = 0
    /\ currentSlice = 0
    /\ lastCall = NoCall
    /\ currentBullet = <<>>

\* Total number of entries of the group lists.
RECURSIVE Entries(_)
Entries(i) == IF i = maxGroups THEN 0 ELSE Len(groupedEntities[i]) + Entries(i + 1)

\* A client of the manager that tags its entities with groups. The clients
\* below are not the Game object: its fields stay as they are.
Next ==
    \/ nextEntity <= MaxEntities /\ AddEntity /\ UNCHANGED game
    \/ \E e \in Owned : Destroy(e) /\ UNCHANGED game
    \/ \E e \in Owned : Enable(e) /\ UNCHANGED game
    \/ \E e \in Owned : Disable(e) /\ UNCHANGED game
    \/ \E e \in Owned, g \in Groups : Entries(0) < MaxEntries /\ AddGroup(e, g) /\ UNCHANGED game
    \/ \E e \in Owned, g \in Groups : DelGroup(e, g) /\ UNCHANGED game
    \/ Update(NoFx) /\ UNCHANGED game
    \/ Draw /\ UNCHANGED game
    \/ Refresh /\ UNCHANGED game

Spec == Init /\ [][Next]_vars

\* Total number of components of the entities in S.
RECURSIVE Attached(_)
Attached(S) == IF S = {} THEN 0 ELSE LET e == CHOOSE x \in S : TRUE IN Len(components[e]) + Attached(S \ {e})

\* A client that attaches components to an entity and queries them and the
\* type-ID registry.
ComponentNext ==
    \/ \E T \in Variants : CallGetComponentTypeID(T) /\ UNCHANGED game
    \/ nextEntity <= MaxHolders /\ AddEntity /\ UNCHANGED game
    \/ \E e \in Owned : Destroy(e) /\ UNCHANGED game
    \/ \E e \in Owned : Enable(e) /\ UNCHANGED game
    \/ \E e \in Owned : Disable(e) /\ UNCHANGED game
    \/ \E e \in Owned, T \in Variants : CallHasComponent(e, T) /\ UNCHANGED game
    \/ \E e \in Owned, T \in Variants :
          Attached(Owned) < MaxAttached /\ AddComponent(e, T) /\ UNCHANGED game
    \/ \E e \in Owned, T \in Variants : GetComponent(e, T) /\ UNCHANGED game
    \/ \E fx \in {NoFx} \cup (Owned \X Owned) : Update(fx) /\ UNCHANGED game
    \/ Draw /\ UNCHANGED game
    \/ Refresh /\ UNCHANGED game

ComponentSpec == Init /\ [][ComponentNext]_vars

\* A client that goes to the capacities and one past them: it registers
\* the variants 0 .. maxComponents one after the other, so that variant T has
\* ID T, and then uses the last group and the last variant within the
\* capacity and the first beyond it.
EdgeGroups == {maxGroups - 1, maxGroups}
EdgeVariants == {maxComponents - 1, maxComponents}
CapacityNext ==
    \/ /\ nextEntity = 1 /\ lastID <= maxComponents
       /\ CallGetComponentTypeID(lastID) /\ UNCHANGED game
    \/ nextEntity <= MaxHolders /\ AddEntity /\ UNCHANGED game
    \/ \E e \in Owned, g \in EdgeGroups :
          Entries(0) < MaxEntries /\ AddGroup(e, g) /\ UNCHANGED game
    \/ \E e \in Owned, g \in EdgeGroups : DelGroup(e, g) /\ UNCHANGED game
    \/ \E e \in Owned, g \in EdgeGroups : CallHasGroup(e, g) /\ UNCHANGED game
    \/ \E g \in EdgeGroups : CallGetEntitiesByGroup(g) /\ UNCHANGED game
    \/ \E e \in Owned, T \in EdgeVariants :
          /\ Registered(T) /\ Attached(Owned) < MaxAttached
          /\ AddComponent(e, T) /\ UNCHANGED game
    \/ Refresh /\ UNCHANGED game

CapacitySpec == Init /\ [][CapacityNext]_vars

\* A client that adds, groups and destroys entities and refreshes.
OrderNext ==
    \/ nextEntity <= MaxOrdered /\ AddEntity /\ UNCHANGED game
    \/ \E e \in Owned : Destroy(e) /\ UNCHANGED game
    \/ \E e \in Owned, g \in Groups :
          Entries(0) < MaxEntries /\ AddGroup(e, g) /\ UNCHANGED game
    \/ \E e \in Owned, g \in Groups : DelGroup(e, g) /\ UNCHANGED game
    \/ Refresh /\ UNCHANGED game

OrderSpec == Init /\ [][OrderNext]_vars

\* A client that attaches components to several entities and runs the
\* passes over them; a component's Update may enable another entity.
PassNext ==
    \/ nextEntity <= MaxEntities /\ AddEntity /\ UNCHANGED game
    \/ \E e \in Owned : Destroy(e) /\ UNCHANGED game
    \/ \E e \in Owned : Enable(e) /\ UNCHANGED game
    \/ \E e \in Owned : Disable(e) /\ UNCHANGED game
    \/ \E e \in Owned, T \in Variants :
          Attached(Owned) < MaxAttached /\ AddComponent(e, T) /\ UNCHANGED game
    \/ \E fx \in {NoFx} \cup (Owned \X Owned) : Update(fx) /\ UNCHANGED game
    \/ Draw /\ UNCHANGED game
    \/ Refresh /\ UNCHANGED game

PassSpec == Init /\ [][PassNext]_vars

----------------------------------------------------------------------------
----------------------------------------------------------------------------
\* The Space Invaders game: Game's constructor and Game::Run().

\* SpaceInvadersGroup.
PlayerShip == 0
OffensiveEnemyShip == 1
PlayerBullet == 2
EnemyBullet == 3
DefensiveEnemyShip == 4

\* FrameTime is a float of milliseconds; the model counts it in ticks of
\* 1/FtScale ms.
FtScale == 2
ftStep == 1
ftSlice == 1

\* The component types of the game and the siblings their Initialize()
\* fetches with entity->GetComponent<U>(), in order.
GameComponents ==
    {"Transform", "Physics", "RectangleRenderer", "PlayerController", "WeaponAIController"}
InitializeLookups ==
    [T \in GameComponents |->
        CASE T = "Transform" -> <<>>
          [] T = "Physics" -> <<"Transform">>
          [] T = "RectangleRenderer" -> <<"Transform">>
          [] T = "PlayerController" -> <<"Transform", "Physics">>
          [] T = "WeaponAIController" -> <<"Transform">>]

\* Game::currentPlayerBullet and Game::currentEnemyBullet: the game never
\* writes them, the controllers are constructed with a copy.
currentPlayerBullet == 0
currentEnemyBullet == 0

\* The controllers that fire: the group of the bullets they use, the size of
\* the pool and the value their counter is constructed with.
Pool ==
    [T \in {"PlayerController", "WeaponAIController"} |->
        IF T = "PlayerController"
        THEN [group |-> PlayerBullet, max |-> maxPlayerBullets, current |-> currentPlayerBullet]
        ELSE [group |-> EnemyBullet, max |-> maxEnemyBullets, current |-> currentEnemyBullet]]

\* The calls of the factory functions, in order; each acts on the entity the
\* factory's AddEntity() returned.
InsAddEntity == [op |-> "AddEntity"]
InsAddComponent(T) == [op |-> "AddComponent", T |-> T]
InsGetComponent(T) == [op |-> "GetComponent", T |-> T]
InsDisable == [op |-> "Disable"]
InsAddGroup(g) == [op |-> "AddGroup", g |-> g]

CreatePlayerShip ==
    << InsAddEntity, InsAddComponent("Transform"), InsAddComponent("Physics"),
       InsAddComponent("RectangleRenderer"), InsAddComponent("PlayerController"),
       InsAddGroup(PlayerShip) >>

CreatePlayerBullet ==
    << InsAddEntity, InsAddComponent("Transform"), InsAddComponent("Physics"),
       InsAddComponent("RectangleRenderer"), InsGetComponent("Physics"),
       InsDisable, InsAddGroup(PlayerBullet) >>

CreateEnemyBullet ==
    << InsAddEntity, InsAddComponent("Transform"), InsAddComponent("Physics"),
       InsAddComponent("RectangleRenderer"), InsGetComponent("Physics"),
       InsDisable, InsAddGroup(EnemyBullet) >>

CreateOffensiveEnemyShip ==
    << InsAddEntity, InsAddComponent("Transform"), InsAddComponent("Physics"),
       InsAddComponent("RectangleRenderer"), InsAddComponent("WeaponAIController"),
       InsGetComponent("Physics"), InsAddGroup(OffensiveEnemyShip) >>

CreateDefensiveEnemyShip ==
    << InsAddEntity, InsAddComponent("Transform"), InsAddComponent("Physics"),
       InsAddComponent("RectangleRenderer"), InsGetComponent("Physics"),
       InsAddGroup(DefensiveEnemyShip) >>

RECURSIVE Times(_, _)
Times(n, prog) == IF n = 0 THEN <<>> ELSE prog \o Times(n - 1, prog)

CreateAllPlayerBullets == Times(maxPlayerBullets, CreatePlayerBullet)
CreateAllEnemyBullets == Times(maxEnemyBullets, CreateEnemyBullet)

\* The inner loop of CreateEnemyShips from row iY on; the modelled game has
\* one column of enemy ships (the source has countEnemyColumn = 9).
RECURSIVE CreateEnemyColumn(_)
CreateEnemyColumn(iY) ==
    IF iY >= countEnemyRow THEN <<>>
    ELSE (IF iY % 2 = 0 THEN CreateOffensiveEnemyShip ELSE CreateDefensiveEnemyShip)
         \o CreateEnemyColumn(iY + 1)
CreateEnemyShips == CreateEnemyColumn(0)

GameCtor ==
    CreatePlayerShip \o CreateEnemyShips \o CreateAllPlayerBullets \o CreateAllEnemyBullets

At(label) == [at |-> label, n |-> 0]

\* One call of Game's constructor.
Construct ==
    /\ pc.at = "Game"
    /\ pc.n <= Len(GameCtor)
    /\ LET ins == GameCtor[pc.n]
           e == nextEntity - 1
       IN  CASE ins.op = "AddEntity" -> AddEntity
             [] ins.op = "AddComponent" -> AddComponentOf(e, ins.T, InitializeLookups[ins.T])
             [] ins.op = "GetComponent" -> GetComponent(e, ins.T)
             [] ins.op = "Disable" -> Disable(e)
             [] ins.op = "AddGroup" -> AddGroup(e, ins.g)
    /\ currentBullet' =
          IF GameCtor[pc.n].op = "AddComponent" /\ GameCtor[pc.n].T \in DOMAIN Pool
          THEN Extend(currentBullet, nextEntity - 1, Pool[GameCtor[pc.n].T].current)
          ELSE currentBullet
    /\ pc' = [pc EXCEPT !.n = @ + 1]
    /\ UNCHANGED <<running, lastFt, currentSlice, lastCall>>

\* main(): Game{}.Run() enters Run() when the constructor has returned.
Run ==
    /\ pc.at = "Game"
    /\ pc.n = Len(GameCtor) + 1
    /\ running' = TRUE
    /\ pc' = At("while")
    /\ UNCHANGED <<world, lastFt, currentSlice, lastCall, currentBullet>>

\* while(running)
WhileRunning ==
    /\ pc = At("while")
    /\ pc' = IF running THEN At("InputPhase") ELSE At("return")
    /\ UNCHANGED <<world, running, lastFt, currentSlice, lastCall, currentBullet>>

\* InputPhase: Escape, when it is pressed, lowers running.
InputPhase(escape) ==
    /\ pc = At("InputPhase")
    /\ running' = IF escape THEN FALSE ELSE running
    /\ pc' = At("UpdatePhase")
    /\ UNCHANGED <<world, lastFt, currentSlice, lastCall, currentBullet>>

\* UpdatePhase up to its loop.
UpdatePhase ==
    /\ pc = At("UpdatePhase")
    /\ currentSlice' = currentSlice + lastFt
    /\ pc' = At("for")
    /\ UNCHANGED <<world, running, lastFt, lastCall, currentBullet>>

\* The loop of UpdatePhase is entered without its call of Refresh().
SliceUpdateOnly ==
    /\ pc = At("for")
    /\ currentSlice >= ftSlice * FtScale
    /\ pc' = At("Update")
    /\ UNCHANGED <<world, running, lastFt, currentSlice, lastCall, currentBullet>>

\* The loop of UpdatePhase is entered: manager.Refresh().
SliceRefresh ==
    /\ pc = At("for")
    /\ currentSlice >= ftSlice * FtScale
    /\ Refresh
    /\ currentBullet' = Restrict(currentBullet, DOMAIN currentBullet \cap Range(RefreshEntities))
    /\ lastCall' = "Refresh"
    /\ pc' = At("Update")
    /\ UNCHANGED <<running, lastFt, currentSlice>>

\* The entities of a group list.
Listed(g) == Range(GetEntitiesByGroup(g))

\* The pool of the controller that entity e holds.
PoolOf(e) ==
    Pool[CHOOSE T \in DOMAIN Pool : \E k \in 1 .. Len(components[e]) : components[e][k].T = T]

\* The counter as it would be used without the reset at the pool's size.
WeaponIndexNoReset(c, max) == c

\* if (current == max) current = 0; the index the weapon then uses.
WeaponIndex(c, max) == IF c = max THEN 0 ELSE c

\* The entities whose controller may fire in a pass.
Controllers == DOMAIN currentBullet \cap Owned

\* The loop of EntityManager::Update in the game, from position i on. The
\* controller of an entity of firing uses its weapon when its Update runs
\* (the Space key and the timers decide): UsePlayerShipWeapon and
\* UseEnemyShipWeapon index the list of their pool with the counter, enable
\* the bullet they find and advance the counter. act is the active flags,
\* cur the counters, log the hook calls so far. An index past the end of the
\* list reads a pointer that is no entry of the list: past is TRUE, and the
\* pass stops there.
RECURSIVE GameUpdateFrom(_, _, _, _, _)
GameUpdateFrom(i, act, cur, log, firing) ==
    IF i > Len(entities) THEN [active |-> act, currentBullet |-> cur, log |-> log, past |-> FALSE]
    ELSE LET e == entities[i]
         IN  IF ~Visits(act, e) THEN GameUpdateFrom(i + 1, act, cur, log, firing)
             ELSE IF e \notin firing
             THEN GameUpdateFrom(i + 1, act, cur, log \o EntityHooks(e), firing)
             ELSE LET list == GetEntitiesByGroup(PoolOf(e).group)
                      index == WeaponIndex(cur[e], PoolOf(e).max)
                  IN  IF index >= Len(list)
                      THEN [active |-> act, currentBullet |-> [cur EXCEPT ![e] = index],
                            log |-> log \o EntityHooks(e), past |-> TRUE]
                      ELSE GameUpdateFrom(i + 1, [act EXCEPT ![list[index + 1]] = TRUE],
                                          [cur EXCEPT ![e] = index + 1],
                                          log \o EntityHooks(e), firing)

\* manager.Update(ftStep). When a weapon indexes its list past the end, the
\* behaviour is undefined: the program faults, or the pointer read there
\* passes for some entity, which is enabled, and the pass is over.
SliceUpdate(firing) ==
    /\ pc = At("Update")
    /\ trapped = NoTrap
    /\ LET pass == GameUpdateFrom(1, active, currentBullet, <<>>, firing)
       IN  /\ currentBullet' = pass.currentBullet
           /\ IF ~pass.past THEN active' = pass.active /\ UNCHANGED trapped
              ELSE \/ trapped' = Fault /\ active' = pass.active
                   \/ /\ \E stray \in Owned : active' = [pass.active EXCEPT ![stray] = TRUE]
                      /\ UNCHANGED trapped
    /\ lastCall' = "Update"
    /\ pc' = At("collisions")
    /\ UNCHANGED <<registry, manager, alive, compState, groupBitset>>
    /\ UNCHANGED <<running, lastFt, currentSlice>>

\* The collision tests of the slice, and the loop's decrement. Each active
\* bullet that intersects a ship of the other side destroys it and is
\* disabled, and so takes part in no later test; a bullet out of bounds is
\* disabled. hitP and hitE map the bullets that hit to the ship they hit,
\* outP and outE are the bullets out of bounds.
Collisions(hitP, hitE, outP, outE) ==
    /\ pc = At("collisions")
    /\ trapped = NoTrap
    /\ alive' = [e \in DOMAIN alive |->
                    IF e \in Range(hitP) \cup Range(hitE) THEN FALSE ELSE alive[e]]
    /\ active' = [e \in DOMAIN active |->
                    IF e \in DOMAIN hitP \cup DOMAIN hitE \cup outP \cup outE
                    THEN FALSE ELSE active[e]]
    /\ currentSlice' = currentSlice - ftSlice * FtScale
    /\ pc' = At("for")
    /\ UNCHANGED <<registry, manager, compState, groupBitset, trapped,
                   running, lastFt, lastCall, currentBullet>>

\* The bullets of a list that can hit in this slice, and the ships in range.
ActiveIn(g) == {e \in Listed(g) : IsActive(e)}
EnemyShips == Listed(DefensiveEnemyShip) \cup Listed(OffensiveEnemyShip)
Hits(bullets, ships) == UNION {[B -> ships] : B \in SUBSET bullets}

\* The loop of UpdatePhase is left; DrawPhase: manager.Draw().
DrawPhase ==
    /\ pc = At("for")
    /\ currentSlice < ftSlice * FtScale
    /\ Draw
    /\ lastCall' = "Draw"
    /\ pc' = At("elapsed")
    /\ UNCHANGED <<running, lastFt, currentSlice, currentBullet>>

\* The end of the frame: lastFt is the time the frame took.
Elapsed(ft) ==
    /\ pc = At("elapsed")
    /\ lastFt' = ft
    /\ pc' = At("while")
    /\ UNCHANGED <<world, running, currentSlice, lastCall, currentBullet>>

RunNext ==
    \/ Construct
    \/ Run
    \/ WhileRunning
    \/ \E escape \in BOOLEAN : InputPhase(escape)
    \/ UpdatePhase
    \/ SliceRefresh
    \/ \E firing \in SUBSET Controllers : SliceUpdate(firing)
    \/ \E hitP \in Hits(ActiveIn(PlayerBullet), EnemyShips),
          hitE \in Hits(ActiveIn(EnemyBullet), Listed(PlayerShip)),
          outP \in SUBSET Listed(PlayerBullet), outE \in SUBSET Listed(EnemyBullet) :
          Collisions(hitP, hitE, outP, outE)
    \/ DrawPhase
    \/ \E ft \in 0 .. MaxFt : Elapsed(ft)

RunSpec == Init /\ [][RunNext]_vars

\* A client that attaches the game's component types to entities in any
\* order, and asks for types before any entity has them.
InitNext ==
    \/ nextEntity <= MaxHolders /\ AddEntity /\ UNCHANGED game
    \/ \E e \in Owned, T \in GameComponents : CallHasComponent(e, T) /\ UNCHANGED game
    \/ \E e \in Owned, T \in GameComponents :
          /\ Attached(Owned) < MaxInitialized
          /\ AddComponentOf(e, T, InitializeLookups[T]) /\ UNCHANGED game

InitSpec == Init /\ [][InitNext]_vars

\* Vocabulary of the properties.

\* The entities allocated so far that the manager no longer owns.
Removed == (1 .. nextEntity - 1) \ Owned
InGroupList(e, g) == e \in Range(groupedEntities[g])
InSomeGroupList(e) == \E g \in AllGroups : InGroupList(e, g)
Refreshed == RefreshEntities = entities /\ RefreshGroups = groupedEntities
Pos(e) == CHOOSE i \in 1 .. Len(entities) : entities[i] = e

----------------------------------------------------------------------------
\* Deferred destruction and group membership (client Spec).

\* C1: Destroy() only lowers the alive flag: the destroyed entity stays in the
\* canonical collection and in every group list it is in through every step
\* that is not a Refresh; the Refresh that follows removes every entity whose
\* alive flag is down from the collection and from all maxGroups group lists.
C1_DestroyThenRefresh ==
    [][/\ \A e \in Owned : Destroy(e) =>
             /\ ~IsAlive(e)'
             /\ entities' = entities
             /\ groupedEntities' = groupedEntities
       /\ IF Refresh
          THEN \A e \in Owned : ~IsAlive(e) =>
                  /\ e \notin Range(entities')
                  /\ \A g \in AllGroups : ~InGroupList(e, g)'
          ELSE \A e \in Owned : ~IsAlive(e) =>
                  /\ e \in Range(entities')
                  /\ \A g \in AllGroups : InGroupList(e, g) => InGroupList(e, g)']_vars

\* One entity was destroyed and refreshed away, another is destroyed and
\* still listed in a group, waiting for the next Refresh.
C1_Witness ==
    /\ Removed # {}
    /\ \E e \in Owned : ~IsAlive(e) /\ InSomeGroupList(e)

\* C2: AddGroup(g) makes the entity visible in GetEntitiesByGroup(g) at once;
\* DelGroup(g) lowers the bit, a lowered bit rises only by an AddGroup(g) on
\* that entity, and a Refresh leaves no entry of group g's list for an
\* entity whose bit g is down.
C2_AddEagerDelLazy ==
    [][/\ \A e \in Owned, g \in Groups :
             /\ AddGroup(e, g) => e \in Range(GetEntitiesByGroup(g)')
             /\ DelGroup(e, g) => ~HasGroup(e, g)'
             /\ (~HasGroup(e, g) /\ e \in Range(entities') /\ HasGroup(e, g)') =>
                   AddGroup(e, g)
       /\ Refresh => \A e \in Owned, g \in AllGroups :
             ~HasGroup(e, g) => e \notin Range(GetEntitiesByGroup(g)')]_vars

\* A live entity left a group that still lists it (DelGroup has run, Refresh
\* has not), beside a live member of a group that lists it.
C2_Witness ==
    /\ \E e \in Owned, g \in Groups : IsAlive(e) /\ ~HasGroup(e, g) /\ InGroupList(e, g)
    /\ \E e \in Owned, g \in Groups : IsAlive(e) /\ HasGroup(e, g) /\ InGroupList(e, g)

\* C3: the state a Refresh produces is a fixed point of Refresh: a second
\* Refresh leaves the canonical collection and every group list as they are.
C3_RefreshIdempotent ==
    [][Refresh => (RefreshEntities' = entities' /\ RefreshGroups' = groupedEntities')]_vars

\* A refreshed state in which a Refresh had work to do and left survivors.
C3_Witness ==
    /\ Refreshed
    /\ Removed # {}
    /\ \E e \in Owned : InSomeGroupList(e)

\* C4: Refresh keeps exactly the entities whose alive flag is up, and the
\* collection shrinks by the number of entities whose flag is down.
C4_RefreshRemovesExactlyDead ==
    [][Refresh =>
          /\ Range(entities') = {e \in Owned : IsAlive(e)}
          /\ Len(entities') = Len(entities) - Cardinality({e \in Owned : ~IsAlive(e)})]_vars

\* Of two entities one was removed and the other survived.
C4_Witness ==
    /\ Cardinality(Removed) = 1
    /\ Cardinality(Owned) = 1
    /\ \A e \in Owned : IsAlive(e)

\* C10: Enable() and Disable() never touch the alive flag or the manager, and
\* a Refresh removes an entity whose alive flag is down from the collection
\* and from all group lists when its active flag is down just as when it is up.
C10_DestroyIgnoresActive ==
    [][/\ \A e \in Owned : (Enable(e) \/ Disable(e)) =>
             /\ alive' = alive
             /\ entities' = entities
             /\ groupedEntities' = groupedEntities
       /\ Refresh => \A e \in Owned :
             /\ e \in Range(entities') <=> IsAlive(e)
             /\ (~IsAlive(e) /\ ~IsActive(e)) =>
                   /\ e \notin Range(entities')
                   /\ \A g \in AllGroups : ~InGroupList(e, g)'
             /\ (~IsAlive(e) /\ IsActive(e)) =>
                   /\ e \notin Range(entities')
                   /\ \A g \in AllGroups : ~InGroupList(e, g)']_vars

\* A disabled, destroyed entity that a group still lists, beside an enabled
\* destroyed one: the next Refresh meets both.
C10_Witness ==
    /\ \E e \in Owned : ~IsActive(e) /\ ~IsAlive(e) /\ InSomeGroupList(e)
    /\ \E e \in Owned : IsActive(e) /\ ~IsAlive(e)

----------------------------------------------------------------------------
\* Components and their type IDs (client ComponentSpec).

Running == trapped = NoTrap

C6_DuplicateTrapped ==
    /\ [][\A e \in Owned, T \in Variants :
             (AddComponent(e, T) /\ HasComponent(e, T)) =>
                /\ trapped' = "AddComponent"
                /\ compState' = compState]_vars
    /\ [](\A e \in Owned : \A i, j \in 1 .. Len(components[e]) :
             components[e][i].T = components[e][j].T => i = j)

\* The program was aborted by AddComponent's assertion.
C6_Witness ==
    /\ trapped = "AddComponent"
    /\ \E e \in Owned : components[e] # <<>>

\* C7: GetComponent<T> on an entity without a T stops at its assertion; a
\* GetComponent that returns has found the bit set and returns a slot that
\* AddComponent wrote, the component of type T this entity owns.
C7_MissingTrapped ==
    [][\A e \in Owned, T \in Variants :
          /\ (GetComponent(e, T) /\ ~HasComponent(e, T)) => trapped' = "GetComponent"
          /\ (GetComponent(e, T) /\ Running') =>
                /\ HasComponent(e, T)
                /\ GetComponentResult(e, T) \in Range(components[e])
                /\ GetComponentResult(e, T).T = T]_vars

\* The program was aborted by GetComponent's assertion on an entity that
\* holds a component of another type.
C7_Witness ==
    /\ trapped = "GetComponent"
    /\ \E e \in Owned : components[e] # <<>>

\* C8: the first call for a variant takes the counter's value, which no
\* variant holds yet, and advances the counter; a later call for it returns
\* the ID it holds and leaves the counter alone; a registered variant keeps
\* its ID through every step; and two variants never hold the same ID.
C8_TypeIDs ==
    /\ [][\A T \in Variants :
             /\ (CallGetComponentTypeID(T) /\ ~Registered(T)) =>
                   (typeID'[T] = lastID /\ lastID' = lastID + 1)
             /\ (CallGetComponentTypeID(T) /\ Registered(T)) =>
                   (GetComponentTypeID(T).ret = typeID[T] /\ lastID' = lastID)
             /\ CallGetComponentTypeID(T) => GetComponentTypeID(T).ret = typeID'[T]
             /\ Registered(T) => typeID'[T] = typeID[T]
             /\ lastID' >= lastID]_vars
    /\ [](\A T, U \in Variants :
             /\ Registered(T) => typeID[T] < lastID
             /\ (Registered(T) /\ Registered(U) /\ T # U) => typeID[T] # typeID[U])

\* All variants are registered, the last declared one first.
C8_Witness ==
    /\ \A T \in Variants : Registered(T)
    /\ typeID[NumVariants - 1] = 0
    /\ lastID = NumVariants

\* C9: a pass visits an entity exactly when its active flag is up as the
\* pass reaches it: up beforehand, or raised earlier in the same Update by a
\* component of an entity visited before it. The hooks of a visited entity
\* all run and none of an entity passed over does; a disabled entity is
\* passed over by the next Update and Draw, an enabled one is visited.
ActiveWhenVisited(e, fx) ==
    \/ IsActive(e)
    \/ /\ fx # NoFx /\ fx[2] = e
       /\ IsActive(fx[1]) /\ components[fx[1]] # <<>>
       /\ Pos(fx[1]) < Pos(e)
HooksRun(e, log) == \A k \in 1 .. Len(components[e]) : components[e][k] \in Range(log)
NoHookRuns(e, log) == \A k \in 1 .. Len(components[e]) : components[e][k] \notin Range(log)
C9_PassVisitsActive ==
    \A e \in Owned :
        /\ \A fx \in {NoFx} \cup (Owned \X Owned) :
              IF ActiveWhenVisited(e, fx)
              THEN HooksRun(e, UpdateFrom(1, active, <<>>, fx).log)
              ELSE NoHookRuns(e, UpdateFrom(1, active, <<>>, fx).log)
        /\ IF IsActive(e) THEN HooksRun(e, DrawFrom(1, <<>>))
                          ELSE NoHookRuns(e, DrawFrom(1, <<>>))

\* An enabled entity with a component stands before a disabled one with a
\* component: a pass skips the second unless the first enables it on the way.
C9_Witness ==
    \E a, b \in Owned :
        /\ Pos(a) < Pos(b)
        /\ IsActive(a) /\ ~IsActive(b)
        /\ components[a] # <<>> /\ components[b] # <<>>

----------------------------------------------------------------------------
\* The life of an entity (client Spec).

Phase(e) ==
    IF e \notin Owned THEN "Removed"
    ELSE IF ~IsAlive(e) THEN "PendingDestruction"
    ELSE IF IsActive(e) THEN "Alive+Active"
    ELSE "Alive+Inactive"

\* C12: an entity changes state only along Alive+Active <-> Alive+Inactive,
\* from either of them to PendingDestruction, and from PendingDestruction to
\* Removed; it leaves the collection only in a Refresh and only with its alive
\* flag down; and a removed entity is in the collection and in the group
\* lists never again.
C12_Lifecycle ==
    [][\A e \in 1 .. nextEntity - 1 :
          /\ Phase(e)' # Phase(e) =>
                <<Phase(e), Phase(e)'>> \in
                    { <<"Alive+Active", "Alive+Inactive">>,
                      <<"Alive+Inactive", "Alive+Active">>,
                      <<"Alive+Active", "PendingDestruction">>,
                      <<"Alive+Inactive", "PendingDestruction">>,
                      <<"PendingDestruction", "Removed">> }
          /\ (e \in Owned /\ e \notin Range(entities')) => (Refresh /\ ~IsAlive(e))
          /\ e \in Removed =>
                /\ e \notin Range(entities')
                /\ \A g \in AllGroups : ~InGroupList(e, g)']_vars

\* One entity was removed while disabled, and the one that took its place in
\* the collection is pending destruction.
C12_Witness ==
    /\ Removed # {}
    /\ \E e \in Owned : Phase(e) = "PendingDestruction" /\ ~IsActive(e)
    /\ \A e \in Owned : ~InSomeGroupList(e)

----------------------------------------------------------------------------
\* The host loop (client RunSpec).

\* C13 as stated: Run() calls Refresh, Update and Draw once each per step, in
\* that order: an Update comes right after a Refresh, a Draw right after an
\* Update, and a Refresh right after a Draw (or first of all).
C13_OneOfEachPerStep ==
    [][/\ (\E firing \in SUBSET Controllers : SliceUpdate(firing)) => lastCall = "Refresh"
       /\ DrawPhase => lastCall = "Update"
       /\ SliceRefresh => lastCall \in {NoCall, "Draw"}]_vars

\* C13, amended: every Update comes right after a Refresh and every Refresh
\* is followed at once by its Update; a frame makes this pair of calls once
\* per whole time slice it has accumulated, none or several times, and ends
\* with one Draw, which is the last call when the frame's time is taken.
C13_SlicesThenDraw ==
    [][/\ (\E firing \in SUBSET Controllers : SliceUpdate(firing)) => lastCall = "Refresh"
       /\ (lastCall = "Refresh" /\ lastCall' # "Refresh") =>
             \E firing \in SUBSET Controllers : SliceUpdate(firing)
       /\ DrawPhase => (lastCall # "Refresh" /\ pc' = At("elapsed"))
       /\ (\E ft \in 0 .. MaxFt : Elapsed(ft)) => lastCall = "Draw"
       /\ (pc = At("elapsed") /\ pc' # pc) => \E ft \in 0 .. MaxFt : Elapsed(ft)]_vars

\* The first of two slices of one frame is between its Refresh and its
\* Update, in a game that has had an entity removed.
C13_Witness ==
    /\ pc = At("Update")
    /\ lastCall = "Refresh"
    /\ currentSlice >= 2 * ftSlice * FtScale
    /\ Removed # {}

----------------------------------------------------------------------------
\* Group membership and the group lists (client Spec).

\* C14: DelGroup(g) on e takes g out of e's group bits and changes nothing
\* else: not the group lists, where g's list keeps its entries for e, not the
\* collection, e's other bits, any flag, any component or any other entity;
\* and an entry leaves a group list in no step but a Refresh.
C14_DelGroupFrame ==
    [][/\ \A e \in Owned, g \in Groups : DelGroup(e, g) =>
             /\ groupBitset'[e] = groupBitset[e] \ {g}
             /\ \A d \in Owned \ {e} : groupBitset'[d] = groupBitset[d]
             /\ groupedEntities' = groupedEntities
             /\ UNCHANGED <<entities, alive, active, compState>>
       /\ (groupedEntities' # groupedEntities /\ ~Refresh) =>
             \A e \in Owned, g \in AllGroups : InGroupList(e, g) => InGroupList(e, g)']_vars

\* A disabled, live entity has left the first group, whose list still holds
\* it, and is a member of the last.
C14_Witness ==
    \E e \in Owned :
        /\ IsAlive(e) /\ ~IsActive(e)
        /\ ~HasGroup(e, 0) /\ InGroupList(e, 0)
        /\ HasGroup(e, maxGroups - 1) /\ InGroupList(e, maxGroups - 1)

\* The number of entries of a list that refer to e.
Count(e, list) == Cardinality({i \in DOMAIN list : list[i] = e})

\* C15: every AddGroup(g) on e appends one entry for e at the end of g's
\* list and leaves the other lists alone, whether e's bit g was up or down and
\* whether the list holds e already; and Refresh keeps every entry of a live
\* member, duplicates included.
C15_NoDeduplication ==
    [][/\ \A e \in Owned, g \in Groups : AddGroup(e, g) =>
             /\ GetEntitiesByGroup(g)' = Append(GetEntitiesByGroup(g), e)
             /\ \A h \in AllGroups \ {g} : GetEntitiesByGroup(h)' = GetEntitiesByGroup(h)
       /\ Refresh => \A e \in Owned, g \in Groups :
             (IsAlive(e) /\ HasGroup(e, g)) =>
                Count(e, GetEntitiesByGroup(g)') = Count(e, GetEntitiesByGroup(g))]_vars

\* A refreshed state, one entity removed, in which a list holds two entries
\* for one live member.
C15_Witness ==
    /\ Refreshed
    /\ Removed # {}
    /\ \E e \in Owned, g \in Groups :
          IsAlive(e) /\ HasGroup(e, g) /\ Count(e, GetEntitiesByGroup(g)) = 2

----------------------------------------------------------------------------
\* The capacities (client CapacitySpec).

\* C16: a call of AddGroup, DelGroup, HasGroup or GetEntitiesByGroup with a
\* group >= maxGroups, and the AddComponent of a variant whose ID is >=
\* maxComponents, stops the program in a trap state and leaves every
\* membership bitset, component slot and group list as it was.
C16_CapacityTrapped ==
    [][\A e \in Owned :
          /\ \A g \in EdgeGroups :
                (/\ g >= maxGroups
                 /\ \/ AddGroup(e, g) \/ DelGroup(e, g)
                    \/ CallHasGroup(e, g) \/ CallGetEntitiesByGroup(g)) =>
                   /\ trapped' # NoTrap
                   /\ UNCHANGED <<groupBitset, componentBitset, componentArray, groupedEntities>>
          /\ \A T \in EdgeVariants :
                (/\ Registered(T)
                 /\ typeID[T] >= maxComponents
                 /\ AddComponent(e, T)) =>
                   /\ trapped' # NoTrap
                   /\ UNCHANGED <<groupBitset, componentBitset, componentArray, groupedEntities>>]_vars

----------------------------------------------------------------------------
\* The order of the collection and of the group lists (client OrderSpec).

\* a is b with some of its entries left out, the others in b's order.
RECURSIVE IsSubsequence(_, _)
IsSubsequence(a, b) ==
    IF a = <<>> THEN TRUE
    ELSE IF b = <<>> THEN FALSE
    ELSE IF Head(a) = Head(b) THEN IsSubsequence(Tail(a), Tail(b))
    ELSE IsSubsequence(a, Tail(b))

----------------------------------------------------------------------------
\* The group lists against the collection and the group bits (client Spec).

\* C18: every entry of every group list refers to an entity the canonical
\* collection owns, in every state between two operations: Refresh takes the
\* entries of a dead entity out of the lists in the call that releases it.
C18_NoDanglingEntry ==
    \A g \in AllGroups : Range(GetEntitiesByGroup(g)) \subseteq Owned

\* An entity was released while a disabled entity is listed in a group.
C18_Witness ==
    /\ Removed # {}
    /\ \E e \in Owned : ~IsActive(e) /\ IsAlive(e) /\ InSomeGroupList(e)

\* An entry of g's list for e that the next Refresh will drop.
StaleEntry(e, g) == InGroupList(e, g) /\ (~IsAlive(e) \/ ~HasGroup(e, g))

\* C19: the state a Refresh leaves has, in every group g's list, only
\* entries of entities of the collection whose alive flag and bit g are up;
\* and a list comes to hold a stale entry for e only by a Destroy() of e, a
\* DelGroup(g) of e, or an AddGroup(g) of e after e's Destroy(), all of which
\* the next Refresh cleans up.
C19_CleanAfterRefresh ==
    [][/\ Refresh => \A g \in AllGroups : \A e \in Range(GetEntitiesByGroup(g)') :
             e \in Range(entities') /\ IsAlive(e)' /\ HasGroup(e, g)'
       /\ \A e \in Owned, g \in Groups :
             (~StaleEntry(e, g) /\ e \in Range(entities') /\ StaleEntry(e, g)') =>
                \/ Destroy(e)
                \/ DelGroup(e, g)
                \/ ~IsAlive(e) /\ AddGroup(e, g)]_vars

\* A refreshed state, an entity removed, that lists a live entity in both
\* of its groups.
C19_Witness ==
    /\ Refreshed
    /\ Removed # {}
    /\ \E e \in Owned : \A g \in Groups : HasGroup(e, g) /\ InGroupList(e, g)

\* C20: an entity of the collection whose bit g is up has an entry in group
\* g's list, in every state.
C20_GroupIndexComplete ==
    \A e \in Owned, g \in AllGroups : HasGroup(e, g) => InGroupList(e, g)

\* A destroyed entity left a group and joined it again: its bit is up and
\* the list holds it twice.
C20_Witness ==
    \E e \in Owned, g \in Groups :
        ~IsAlive(e) /\ HasGroup(e, g) /\ Count(e, GetEntitiesByGroup(g)) = 2

----------------------------------------------------------------------------
\* Presence bits, slots and the component list (client PassSpec).

\* The type IDs of the components e's completed AddComponent calls attached.
AttachedIDs(e) == {typeID[components[e][k].T] : k \in 1 .. Len(components[e])}

\* C21: in every state the presence bits of an entity are the type IDs of the
\* components its completed AddComponent calls attached; the slot of a bit
\* that is up holds a component of that type from the entity's own list whose
\* entity is this entity; no entity holds two components of one type; and an
\* AddComponent on one entity leaves the bits and slots of every other
\* entity as they are, as does every step that is no AddComponent on it.
C21_BitsAndSlots ==
    /\ [](\A e \in Owned :
             /\ componentBitset[e] = AttachedIDs(e)
             /\ \A t \in componentBitset[e] :
                   /\ Slot(e, t) \in Range(components[e])
                   /\ Slot(e, t).entity = e
                   /\ typeID[Slot(e, t).T] = t
             /\ \A i, j \in 1 .. Len(components[e]) :
                   typeID[components[e][i].T] = typeID[components[e][j].T] => i = j)
    /\ [][\A e \in Owned :
             /\ \A T \in Variants : AddComponent(e, T) =>
                   \A d \in Owned \ {e} :
                      /\ componentBitset'[d] = componentBitset[d]
                      /\ componentArray'[d] = componentArray[d]
             /\ (/\ e \in Range(entities')
                 /\ <<componentBitset[e], componentArray[e]>>' #
                       <<componentBitset[e], componentArray[e]>>) =>
                   \E T \in Variants : AddComponent(e, T) /\ Running']_vars

\* Two entities hold one component each, of different types; the first
\* entity's component has the type registered second.
C21_Witness ==
    \E a, b \in Owned :
        /\ Pos(a) < Pos(b)
        /\ componentBitset[a] = {1}
        /\ componentBitset[b] = {0}

----------------------------------------------------------------------------
\* Initialize() within AddComponent (client InitSpec).

\* The types of the components e holds.
AttachedTypes(e) == {components[e][k].T : k \in 1 .. Len(components[e])}

\* HasComponent<U>() as a call from within the Initialize() of e's new T
\* answers: U's bit at that point, U's ID taken from the statics as
\* Initialize() finds them.
HasComponentAtInitialize(e, T, U) ==
    GetComponentTypeIDIn(GetComponentTypeID(T), U).ret \in AtInitialize(e, T).bits

\* C22: an AddComponent<T> that passes its assertion calls the new
\* component's Initialize() once, before it returns, on an entity that has
\* the component last in its list with the entity set, and T's slot and bit
\* written: HasComponent is then true for T and for every type attached
\* earlier and false for every other type, those attached later among them.
\* So the call ends in GetComponent's assertion exactly if Initialize()
\* fetches a type that was not attached earlier; otherwise it returns with
\* the component attached.
C22_InitializeAfterAttach ==
    [][\A e \in Owned, T \in GameComponents :
          (AddComponentOf(e, T, InitializeLookups[T]) /\ ~HasComponent(e, T)) =>
             /\ AtInitialize(e, T).components[Len(components[e]) + 1].entity = e
             /\ GetComponentTypeID(T).ret \in DOMAIN AtInitialize(e, T).slots
             /\ AtInitialize(e, T).slots[GetComponentTypeID(T).ret] = NewComponent(e, T)
             /\ \A U \in GameComponents :
                   HasComponentAtInitialize(e, T, U) <=> U \in AttachedTypes(e) \cup {T}
             /\ trapped' = "GetComponent" <=>
                   \E k \in DOMAIN InitializeLookups[T] :
                      InitializeLookups[T][k] \notin AttachedTypes(e) \cup {T}
             /\ trapped' \in {NoTrap, "GetComponent"}
             /\ components'[e] = AtInitialize(e, T).components
             /\ componentArray'[e] = AtInitialize(e, T).slots
             /\ componentBitset'[e] = AtInitialize(e, T).bits
             /\ \A U \in AttachedTypes(e)' : U \in DOMAIN typeID']_vars

\* A PlayerController was attached after a Transform and a Physics, and its
\* Initialize() found both.
C22_Witness ==
    /\ trapped = NoTrap
    /\ \E e \in Owned :
          /\ Len(components[e]) = 3
          /\ components[e][3].T = "PlayerController"
          /\ GetComponentResult(e, "PlayerController") = components[e][3]

----------------------------------------------------------------------------
\* The order of the hook calls of a pass (client PassSpec).

\* The hook calls of log are in the order of the collection, entity by
\* entity, those of one entity in the order of its component list, and no
\* component is called twice.
InVisitOrder(log) ==
    \A i, j \in DOMAIN log :
        i < j =>
           \/ Pos(log[i].entity) < Pos(log[j].entity)
           \/ /\ log[i].entity = log[j].entity
              /\ log[i].n < log[j].n

\* C23: the hook calls of an Update pass and of a Draw pass, whatever the
\* Update of a component does to the active flags on the way, go through the
\* collection in its order and through the components of each entity in the
\* order they were attached; every component of an entity that is active
\* when the pass starts is called, each once, and all of them before the
\* first component of an entity further on.
C23_VisitOrder ==
    /\ \A fx \in {NoFx} \cup (Owned \X Owned) :
          LET log == UpdateFrom(1, active, <<>>, fx).log
          IN  /\ InVisitOrder(log)
              /\ \A e \in Owned : \A k \in 1 .. Len(components[e]) :
                    IsActive(e) => Count(components[e][k], log) = 1
    /\ LET log == DrawFrom(1, <<>>)
       IN  /\ InVisitOrder(log)
           /\ \A e \in Owned : \A k \in 1 .. Len(components[e]) :
                 Count(components[e][k], log) = IF IsActive(e) THEN 1 ELSE 0

\* An active entity with two components stands behind a disabled entity.
C23_Witness ==
    \E a, b \in Owned :
        /\ Pos(b) < Pos(a)
        /\ ~IsActive(b) /\ IsActive(a)
        /\ Len(components[a]) = 2
        /\ trapped = NoTrap

----------------------------------------------------------------------------
\* Destroyed entities in the game loop (client RunSpec).

\* A destroyed entity is reachable until a Refresh: a step that is not the
\* loop's Refresh keeps it in the collection with its component list, slots
\* and bits as they are; GetComponent finds each of its components; and if
\* its active flag is up, an Update pass and a Draw pass call its hooks.
StaysReachable ==
    \A e \in Owned :
        ~IsAlive(e) =>
           /\ e \notin Range(entities') => SliceRefresh
           /\ e \in Range(entities') =>
                 /\ components'[e] = components[e]
                 /\ componentArray'[e] = componentArray[e]
                 /\ componentBitset'[e] = componentBitset[e]
           /\ \A k \in 1 .. Len(components[e]) :
                 /\ HasComponent(e, components[e][k].T)
                 /\ GetComponentResult(e, components[e][k].T) = components[e][k]
           /\ IsActive(e) =>
                 /\ HooksRun(e, GameUpdateFrom(1, active, currentBullet, <<>>, {}).log)
                 /\ HooksRun(e, DrawFrom(1, <<>>))

\* C24 as stated: a destroyed entity stays reachable until the next Refresh,
\* and an entity the collision tests of a step destroyed is drawn by the Draw
\* that follows that step: the Refresh that removes it comes after a Draw.
C24_DrawnAfterItsStep ==
    [][/\ StaysReachable
       /\ (SliceRefresh /\ \E e \in Owned : ~IsAlive(e)) => lastCall = "Draw"]_vars

\* C24, amended: a destroyed entity stays reachable until the next Refresh.
\* In the game loop the entities the collision tests of a frame's last time
\* slice destroyed are in the collection when the frame's Draw runs, and the
\* Draw of every frame until the next time slice, and these Draws call their
\* hooks if they are active; those destroyed in an earlier slice of a frame
\* are removed by the Refresh of the next slice, before the Draw. Every
\* Update follows a Refresh at once, so no Update of the loop meets a
\* destroyed entity.
C24_ReachableUntilRefresh ==
    [][/\ StaysReachable
       /\ DrawPhase => \A e \in Owned :
             (~IsAlive(e) /\ IsActive(e)) =>
                /\ lastCall \in {"Update", "Draw"}
                /\ HooksRun(e, DrawFrom(1, <<>>))
                /\ e \in Range(entities')
       /\ SliceRefresh => \A e \in Owned :
             ~IsAlive(e) => (e \notin Range(entities') /\ lastCall \in {"Update", "Draw"})
       /\ (\E firing \in SUBSET Controllers : SliceUpdate(firing)) =>
             \A e \in Owned : IsAlive(e)]_vars

\* The frame's Draw has just drawn a destroyed ship, after an earlier Refresh
\* removed another.
C24_Witness ==
    /\ pc = At("elapsed")
    /\ lastCall = "Draw"
    /\ Removed # {}
    /\ \E e \in Owned : ~IsAlive(e) /\ IsActive(e) /\ components[e] # <<>>

----------------------------------------------------------------------------
\* The bullet pools (client RunSpec).

\* C25: once the constructor has returned, the list of the PlayerBullet group
\* has maxPlayerBullets entries and the list of the EnemyBullet group
\* maxEnemyBullets, in every state: no step destroys a bullet or changes
\* either list. The counter of a controller is between 0 and the size of its
\* pool, and the index its weapon uses, the counter after the reset at the
\* pool's size, is below the size of the pool and so within the list; no
\* Update pass reads past the end of a list, and the program never faults.
C25_PoolIndexInBounds ==
    /\ [](trapped = NoTrap)
    /\ [](pc.at # "Game" =>
             /\ Len(GetEntitiesByGroup(PlayerBullet)) = maxPlayerBullets
             /\ Len(GetEntitiesByGroup(EnemyBullet)) = maxEnemyBullets
             /\ \A e \in Controllers :
                   /\ currentBullet[e] \in 0 .. PoolOf(e).max
                   /\ WeaponIndex(currentBullet[e], PoolOf(e).max) \in 0 .. PoolOf(e).max - 1
                   /\ WeaponIndex(currentBullet[e], PoolOf(e).max) <
                         Len(GetEntitiesByGroup(PoolOf(e).group)))
    /\ [][/\ \A b \in Listed(PlayerBullet) \cup Listed(EnemyBullet) :
                b \in Range(entities') /\ IsAlive(b)'
          /\ pc.at # "Game" =>
                /\ GetEntitiesByGroup(PlayerBullet)' = GetEntitiesByGroup(PlayerBullet)
                /\ GetEntitiesByGroup(EnemyBullet)' = GetEntitiesByGroup(EnemyBullet)
          /\ \A firing \in SUBSET Controllers :
                SliceUpdate(firing) =>
                   ~GameUpdateFrom(1, active, currentBullet, <<>>, firing).past]_vars

\* The player ship has fired again after its bullet hit an enemy ship that a
\* Refresh has removed since: the counter had reached the size of the pool
\* and was reset before the list was indexed.
C25_Witness ==
    /\ pc = At("collisions")
    /\ Removed # {}
    /\ \E e \in Controllers :
          /\ PoolOf(e).group = PlayerBullet
          /\ currentBullet[e] = maxPlayerBullets
          /\ \A b \in Listed(PlayerBullet) : IsActive(b)

====
